---------------------------- MODULE Spec2Model ----------------------------
(***************************************************************************)
(* heapless-async: async wrappers around the heapless SPSC and MPMC        *)
(* queues.  The model follows the shared-memory steps of every operation:  *)
(* one action per buffer access, per compare_exchange on a waker cell and  *)
(* per critical section (the slot access together with the releasing       *)
(* store).  The executor is modelled by one "notified" bit per task: a     *)
(* task whose operation returned Pending is polled again only after its    *)
(* waker has been invoked.                                                 *)
(***************************************************************************)
EXTENDS Naturals, Integers, Sequences, FiniteSets, Bags, TLC

\* Capacity of the ring buffer of the SPSC queue (kept small).
Capacity == 2

\* Number of operations every task of the SPSC queue issues.
MaxOps == 3

\* Capacity of the ring buffer of the MPMC queue (kept small).
MpmcCapacity == 1

\* Number of operations every task of the MPMC test issues.
MpmcOps == 1

\* Number of operations a task issues when the MPMC queue is used by one
\* enqueuing and one dequeuing task only.
PairOps == 2

\* Width of the MPMC waker arrays (W).
W == 1

\* Width of the waker arrays of the wide MPMC queue: a slot for every task of
\* a side.
WideW == 2

\* Number of register calls every task makes on the waker slot taken alone.
MaxRegs == 3

\* lock.rs: the two values of the atomic flag.
UNLOCKED == 0

LOCKED == 1

\* The tasks of the SPSC test: one owns the Producer, one the Consumer.
SpscTasks == {"P", "C"}

\* The tasks of the MPMC test: two enqueuing and two dequeuing tasks.
Enqueuers == {"E1", "E2"}

Dequeuers == {"D1", "D2"}

MpmcTasks == Enqueuers \cup Dequeuers

Tasks == SpscTasks \cup MpmcTasks

\* Option<T>: None is the empty sequence, Some(v) the one-element sequence.
None == << >>

Some(v) == << v >>

IsSome(o) == o # << >>

VARIABLES
    inner,              \* the ring buffer (Queue.inner / MpMcQueue.inner)
    producer_waker,     \* SPSC: Mutex<WakerRegistration>, [locked, waker]
    consumer_waker,     \* SPSC: Mutex<WakerRegistration>, [locked, waker]
    enqueue_wakers,     \* MPMC: Lock<[WakerRegistration; W]>, [lock, wakers]
    dequeue_wakers,     \* MPMC: Lock<[WakerRegistration; W]>, [lock, wakers]
    pc,                 \* position of every task in its current call
    value_to_enqueue,   \* ProducerFuture / EnqueueFuture field, per task
    dequeued_value,     \* ConsumerFuture / DequeueFuture field, per task
    res,                \* the local `res` of try_enqueue / try_dequeue
    notified,           \* executor: the task's waker has been invoked
    started,            \* number of operations the task has issued
    enq_hist,           \* values passed to enqueue, in call order
    deq_hist,           \* values returned by completed dequeues, in order
    last,               \* what the task's latest poll or try_ call returned
    call,               \* what the task's current (latest) call has done
    op                  \* what the task's current (latest) operation has done

vars == << inner, producer_waker, consumer_waker, enqueue_wakers,
           dequeue_wakers, pc, value_to_enqueue, dequeued_value, res,
           notified, started, enq_hist, deq_hist, last, call, op >>

mpmcVars == << enqueue_wakers, dequeue_wakers >>

spscVars == << producer_waker, consumer_waker >>

-----------------------------------------------------------------------------
(* The exclusive-access cells.                                             *)

\* Mutex::try_lock: compare_exchange(false, true) succeeds iff the flag is
\* false.
MutexBrokenCas(locked) == TRUE

MutexTryLock(locked) == locked = FALSE

\* MutexGuard::drop: `locked.store(false)` when the guard goes out of scope
\* at the end of the function that took it.
MutexGuardLeak(locked) == locked

MutexGuardDrop(locked) == FALSE

\* Lock::try_lock: compare_exchange(UNLOCKED, LOCKED) succeeds iff the flag
\* is UNLOCKED.
LockBrokenCas(lock) == TRUE

LockTryLock(lock) == lock = UNLOCKED

-----------------------------------------------------------------------------
(* The waker slot.                                                         *)

\* Waker::will_wake: wakers are identified by the task they resume.
WillWake(w2, w) == w2 = w

\* WakerRegistration::register.
RegisterKeepOld(slot, w) == IF IsSome(slot) THEN slot ELSE Some(w)

Register(slot, w) ==
    IF IsSome(slot) /\ WillWake(slot[1], w) THEN slot ELSE Some(w)

\* WakerRegistration::wake, the executor's part: the task of the waker
\* taken from the slot is marked for another poll.
WakeSlot(slot, n) ==
    IF IsSome(slot) THEN [n EXCEPT ![slot[1]] = TRUE] ELSE n

\* cx.waker().wake_by_ref(): the task asks to be polled again at once.
WakeByRefLost(t, n) == n

WakeByRef(t, n) == [n EXCEPT ![t] = TRUE]

\* Where poll goes when a try_lock was contended, coming from position
\* `at`: wake_by_ref has been invoked and poll returns Pending.
AfterContendedSpin(at) == at

AfterContended(at) == "pending"

-----------------------------------------------------------------------------
(* Bookkeeping of calls and operations (history, not program state).       *)

NoCall == [api |-> "none", bufops |-> 0, locks |-> 0, fired |-> FALSE,
           registered |-> FALSE, contended |-> FALSE, selfwake |-> FALSE,
           full |-> FALSE, empty |-> FALSE, changed |-> FALSE,
           done |-> FALSE]

NewCall(api) == [NoCall EXCEPT !.api = api]

NoOp == [kind |-> "none", item |-> None, moved |-> 0, fired |-> FALSE,
         contended |-> FALSE]

NewOp(kind, item) == [NoOp EXCEPT !.kind = kind, !.item = item]

NoRes == [tag |-> "none", val |-> None]

NoRet == [api |-> "none", ret |-> "none", val |-> None]

Ret(api, r, v) == [api |-> api, ret |-> r, val |-> v]

-----------------------------------------------------------------------------
(* Initial states.                                                         *)

\* A queue whose waker arrays have w slots.
InitWidth(w) ==
    /\ inner = << >>
    /\ producer_waker = [locked |-> FALSE, waker |-> None]
    /\ consumer_waker = [locked |-> FALSE, waker |-> None]
    /\ enqueue_wakers = [lock |-> UNLOCKED, wakers |-> [i \in 1..w |-> None]]
    /\ dequeue_wakers = [lock |-> UNLOCKED, wakers |-> [i \in 1..w |-> None]]
    /\ value_to_enqueue = [t \in Tasks |-> None]
    /\ dequeued_value = [t \in Tasks |-> None]
    /\ res = [t \in Tasks |-> NoRes]
    /\ notified = [t \in Tasks |-> FALSE]
    /\ started = [t \in Tasks |-> 0]
    /\ enq_hist = << >>
    /\ deq_hist = << >>
    /\ last = [t \in Tasks |-> NoRet]
    /\ call = [t \in Tasks |-> NoCall]
    /\ op = [t \in Tasks |-> NoOp]

InitCommon == InitWidth(W)

\* Queue::new and Queue::split: the two tasks hold the Producer and the
\* Consumer of one queue.
InitSPSC ==
    /\ InitCommon
    /\ pc = [t \in Tasks |-> IF t \in SpscTasks THEN "idle" ELSE "off"]

-----------------------------------------------------------------------------
(* The executor.                                                           *)

\* A task whose operation is pending is run again once it has been woken;
\* the notification is consumed when the run starts.
Run(t) ==
    /\ pc[t] = "pending"
    /\ notified[t]
    /\ notified' = [notified EXCEPT ![t] = FALSE]
    /\ pc' = [pc EXCEPT ![t] = "poll"]
    /\ call' = [call EXCEPT ![t] = NewCall("poll")]
    /\ UNCHANGED << inner, spscVars, mpmcVars, value_to_enqueue,
                    dequeued_value, res, started, enq_hist, deq_hist,
                    last, op >>

-----------------------------------------------------------------------------
(* SPSC producer: Producer::enqueue and ProducerFuture::poll.              *)

\* `self.inner.enqueue(value)` of Producer::enqueue: the push succeeds when
\* the buffer is not full.
InnerEnqueueNever(buf) == FALSE

InnerEnqueue(buf) == Len(buf) < Capacity

\* Producer::enqueue: the push is attempted when the future is created.
ProducerEnqueue ==
    /\ pc["P"] = "idle"
    /\ started["P"] < MaxOps
    /\ LET v == started["P"] + 1
           room == InnerEnqueue(inner)
       IN /\ inner' = IF room THEN Append(inner, v) ELSE inner
          /\ value_to_enqueue' =
                [value_to_enqueue EXCEPT !["P"] = IF room THEN None ELSE Some(v)]
          /\ enq_hist' = Append(enq_hist, v)
          /\ op' = [op EXCEPT !["P"] =
                [NewOp("enqueue", Some(v)) EXCEPT !.moved = IF room THEN 1 ELSE 0]]
    /\ started' = [started EXCEPT !["P"] = @ + 1]
    /\ pc' = [pc EXCEPT !["P"] = "poll"]
    /\ call' = [call EXCEPT !["P"] = NewCall("poll")]
    /\ UNCHANGED << spscVars, mpmcVars, dequeued_value, res, notified,
                    deq_hist, last >>

\* What the future keeps after a successful push (value_to_enqueue.take()).
KeepAfterPushDup(v) == Some(v)

KeepAfterPush(v) == None

\* Where poll goes after the push attempt: notify the consumer after a
\* push, park after a failed one.
AfterPushAlwaysWake(room) == "wake"

AfterPush(room) == IF room THEN "wake" ELSE "register"

\* ProducerFuture::poll up to the first attempt on a cell: take the value,
\* retry the push.
ProducerPoll ==
    /\ pc["P"] = "poll"
    /\ IF ~IsSome(value_to_enqueue["P"])
       THEN /\ pc' = [pc EXCEPT !["P"] = "wake"]
            /\ UNCHANGED << inner, value_to_enqueue, call, op >>
       ELSE LET v == value_to_enqueue["P"][1]
                room == Len(inner) < Capacity
            IN /\ inner' = IF room THEN Append(inner, v) ELSE inner
               /\ value_to_enqueue' = [value_to_enqueue EXCEPT !["P"] =
                      IF room THEN KeepAfterPush(v) ELSE Some(v)]
               /\ pc' = [pc EXCEPT !["P"] = AfterPush(room)]
               /\ call' = [call EXCEPT !["P"].bufops = @ + 1,
                                       !["P"].full = ~room,
                                       !["P"].changed = room]
               /\ op' = [op EXCEPT !["P"].moved = IF room THEN @ + 1 ELSE @]
    /\ UNCHANGED << spscVars, mpmcVars, dequeued_value, res, notified,
                    started, enq_hist, deq_hist, last >>

\* Producer::try_wake_consumer, the compare_exchange; on contention the
\* closure of poll invokes wake_by_ref and poll returns Pending.
ProducerWakeLock ==
    /\ pc["P"] = "wake"
    /\ call' = [call EXCEPT !["P"].locks = @ + 1,
                  !["P"].contended = ~MutexTryLock(consumer_waker.locked),
                  !["P"].selfwake = ~MutexTryLock(consumer_waker.locked),
                  !["P"].done = ~MutexTryLock(consumer_waker.locked)]
    /\ IF MutexTryLock(consumer_waker.locked)
       THEN /\ consumer_waker' = [consumer_waker EXCEPT !.locked = TRUE]
            /\ pc' = [pc EXCEPT !["P"] = "wake_cs"]
            /\ UNCHANGED << notified, last >>
       ELSE /\ notified' = WakeByRef("P", notified)
            /\ pc' = [pc EXCEPT !["P"] = AfterContended(pc["P"])]
            /\ last' = [last EXCEPT !["P"] = Ret("enqueue", "Pending", None)]
            /\ UNCHANGED consumer_waker
    /\ UNCHANGED << inner, producer_waker, mpmcVars, value_to_enqueue,
                    dequeued_value, res, started, enq_hist, deq_hist >>
    /\ op' = [op EXCEPT !["P"].contended = @ \/ ~MutexTryLock(consumer_waker.locked)]

\* Producer::try_wake_consumer, the critical section: wk.wake(), then the
\* guard is dropped and poll returns Ready.
ProducerWakeCs ==
    /\ pc["P"] = "wake_cs"
    /\ notified' = WakeSlot(consumer_waker.waker, notified)
    /\ consumer_waker' = [locked |-> MutexGuardDrop(consumer_waker.locked),
                         waker |-> None]
    /\ pc' = [pc EXCEPT !["P"] = "idle"]
    /\ last' = [last EXCEPT !["P"] = Ret("enqueue", "Ready", None)]
    /\ call' = [call EXCEPT !["P"].fired = TRUE, !["P"].done = TRUE]
    /\ op' = [op EXCEPT !["P"].fired = (op["P"].moved > 0)]
    /\ UNCHANGED << inner, producer_waker, mpmcVars, value_to_enqueue,
                    dequeued_value, res, started, enq_hist, deq_hist >>

\* Producer::try_register_waker, the compare_exchange; on contention poll
\* invokes wake_by_ref and returns Pending.
ProducerRegisterLock ==
    /\ pc["P"] = "register"
    /\ call' = [call EXCEPT !["P"].locks = @ + 1,
                  !["P"].contended = ~MutexTryLock(producer_waker.locked),
                  !["P"].selfwake = ~MutexTryLock(producer_waker.locked),
                  !["P"].done = ~MutexTryLock(producer_waker.locked)]
    /\ IF MutexTryLock(producer_waker.locked)
       THEN /\ producer_waker' = [producer_waker EXCEPT !.locked = TRUE]
            /\ pc' = [pc EXCEPT !["P"] = "register_cs"]
            /\ UNCHANGED << notified, last >>
       ELSE /\ notified' = WakeByRef("P", notified)
            /\ pc' = [pc EXCEPT !["P"] = AfterContended(pc["P"])]
            /\ last' = [last EXCEPT !["P"] = Ret("enqueue", "Pending", None)]
            /\ UNCHANGED producer_waker
    /\ UNCHANGED << inner, consumer_waker, mpmcVars, value_to_enqueue,
                    dequeued_value, res, started, enq_hist, deq_hist, op >>

\* Producer::try_register_waker, the critical section: wk.register(waker),
\* then the guard is dropped and poll returns Pending.
ProducerRegisterCs ==
    /\ pc["P"] = "register_cs"
    /\ producer_waker' =
          [locked |-> MutexGuardDrop(producer_waker.locked),
           waker |-> Register(producer_waker.waker, "P")]
    /\ pc' = [pc EXCEPT !["P"] = "pending"]
    /\ last' = [last EXCEPT !["P"] = Ret("enqueue", "Pending", None)]
    /\ call' = [call EXCEPT !["P"].registered = TRUE, !["P"].done = TRUE]
    /\ UNCHANGED << inner, consumer_waker, mpmcVars, value_to_enqueue,
                    dequeued_value, res, notified, started, enq_hist,
                    deq_hist, op >>

-----------------------------------------------------------------------------
(* SPSC consumer: Consumer::dequeue and ConsumerFuture::poll.              *)

\* Consumer::dequeue: the future is created empty-handed.
ConsumerDequeue ==
    /\ pc["C"] = "idle"
    /\ started["C"] < MaxOps
    /\ started' = [started EXCEPT !["C"] = @ + 1]
    /\ dequeued_value' = [dequeued_value EXCEPT !["C"] = None]
    /\ op' = [op EXCEPT !["C"] = NewOp("dequeue", None)]
    /\ pc' = [pc EXCEPT !["C"] = "poll"]
    /\ call' = [call EXCEPT !["C"] = NewCall("poll")]
    /\ UNCHANGED << inner, spscVars, mpmcVars, value_to_enqueue, res,
                    notified, enq_hist, deq_hist, last >>

\* `if let Some(value) = me.dequeued_value.take()`: an item popped by an
\* earlier poll is still held.
HoldsNever(dv) == FALSE

Holds(dv) == IsSome(dv)

\* What the future keeps when the notification was contended
\* (me.dequeued_value = Some(value)).
HoldValueLost(v) == None

HoldValue(v) == Some(v)

\* ConsumerFuture::poll up to the first attempt on a cell: a held item goes
\* straight to the notification, otherwise one pop is attempted.
ConsumerPoll ==
    /\ pc["C"] = "poll"
    /\ IF Holds(dequeued_value["C"])
       THEN /\ pc' = [pc EXCEPT !["C"] = "wake"]
            /\ UNCHANGED << inner, dequeued_value, call, op >>
       ELSE LET data == Len(inner) > 0
            IN /\ inner' = IF data THEN Tail(inner) ELSE inner
               /\ dequeued_value' = [dequeued_value EXCEPT !["C"] =
                      IF data THEN Some(Head(inner)) ELSE None]
               /\ pc' = [pc EXCEPT !["C"] = IF data THEN "wake" ELSE "register"]
               /\ call' = [call EXCEPT !["C"].bufops = @ + 1,
                                       !["C"].empty = ~data,
                                       !["C"].changed = data]
               /\ op' = [op EXCEPT !["C"].moved = IF data THEN @ + 1 ELSE @,
                                   !["C"].item = IF data THEN Some(Head(inner))
                                                 ELSE @]
    /\ UNCHANGED << spscVars, mpmcVars, value_to_enqueue, res, notified,
                    started, enq_hist, deq_hist, last >>

\* Consumer::try_wake_producer, the compare_exchange; on contention the
\* closure of poll stores the item, invokes wake_by_ref and poll returns
\* Pending.
ConsumerWakeLock ==
    /\ pc["C"] = "wake"
    /\ call' = [call EXCEPT !["C"].locks = @ + 1,
                  !["C"].contended = ~MutexTryLock(producer_waker.locked),
                  !["C"].selfwake = ~MutexTryLock(producer_waker.locked),
                  !["C"].done = ~MutexTryLock(producer_waker.locked)]
    /\ IF MutexTryLock(producer_waker.locked)
       THEN /\ producer_waker' = [producer_waker EXCEPT !.locked = TRUE]
            /\ pc' = [pc EXCEPT !["C"] = "wake_cs"]
            /\ UNCHANGED << notified, last, dequeued_value >>
       ELSE /\ dequeued_value' = [dequeued_value EXCEPT !["C"] =
                                     HoldValue(dequeued_value["C"][1])]
            /\ notified' = WakeByRef("C", notified)
            /\ pc' = [pc EXCEPT !["C"] = AfterContended(pc["C"])]
            /\ last' = [last EXCEPT !["C"] = Ret("dequeue", "Pending", None)]
            /\ UNCHANGED producer_waker
    /\ UNCHANGED << inner, consumer_waker, mpmcVars, value_to_enqueue, res,
                    started, enq_hist, deq_hist >>
    /\ op' = [op EXCEPT !["C"].contended = @ \/ ~MutexTryLock(producer_waker.locked)]

\* Consumer::try_wake_producer, the critical section: wk.wake(), then the
\* guard is dropped and poll returns Ready(value).
ConsumerWakeCs ==
    /\ pc["C"] = "wake_cs"
    /\ notified' = WakeSlot(producer_waker.waker, notified)
    /\ producer_waker' = [locked |-> MutexGuardDrop(producer_waker.locked),
                         waker |-> None]
    /\ pc' = [pc EXCEPT !["C"] = "idle"]
    /\ last' = [last EXCEPT !["C"] = Ret("dequeue", "Ready", dequeued_value["C"])]
    /\ deq_hist' = deq_hist \o dequeued_value["C"]
    /\ dequeued_value' = [dequeued_value EXCEPT !["C"] = None]
    /\ call' = [call EXCEPT !["C"].fired = TRUE, !["C"].done = TRUE]
    /\ op' = [op EXCEPT !["C"].fired = (op["C"].moved > 0)]
    /\ UNCHANGED << inner, consumer_waker, mpmcVars, value_to_enqueue, res,
                    started, enq_hist >>

\* Consumer::try_register_waker, the compare_exchange; on contention poll
\* invokes wake_by_ref and returns Pending.
ConsumerRegisterLock ==
    /\ pc["C"] = "register"
    /\ call' = [call EXCEPT !["C"].locks = @ + 1,
                  !["C"].contended = ~MutexTryLock(consumer_waker.locked),
                  !["C"].selfwake = ~MutexTryLock(consumer_waker.locked),
                  !["C"].done = ~MutexTryLock(consumer_waker.locked)]
    /\ IF MutexTryLock(consumer_waker.locked)
       THEN /\ consumer_waker' = [consumer_waker EXCEPT !.locked = TRUE]
            /\ pc' = [pc EXCEPT !["C"] = "register_cs"]
            /\ UNCHANGED << notified, last >>
       ELSE /\ notified' = WakeByRef("C", notified)
            /\ pc' = [pc EXCEPT !["C"] = AfterContended(pc["C"])]
            /\ last' = [last EXCEPT !["C"] = Ret("dequeue", "Pending", None)]
            /\ UNCHANGED consumer_waker
    /\ UNCHANGED << inner, producer_waker, mpmcVars, value_to_enqueue,
                    dequeued_value, res, started, enq_hist, deq_hist, op >>

\* Consumer::try_register_waker, the critical section: wk.register(waker),
\* then the guard is dropped and poll returns Pending.
ConsumerRegisterCs ==
    /\ pc["C"] = "register_cs"
    /\ consumer_waker' =
          [locked |-> MutexGuardDrop(consumer_waker.locked),
           waker |-> Register(consumer_waker.waker, "C")]
    /\ pc' = [pc EXCEPT !["C"] = "pending"]
    /\ last' = [last EXCEPT !["C"] = Ret("dequeue", "Pending", None)]
    /\ call' = [call EXCEPT !["C"].registered = TRUE, !["C"].done = TRUE]
    /\ UNCHANGED << inner, producer_waker, mpmcVars, value_to_enqueue,
                    dequeued_value, res, notified, started, enq_hist,
                    deq_hist, op >>

-----------------------------------------------------------------------------
(* The SPSC queue used through enqueue and dequeue only.                   *)

NextSPSC ==
    \/ Run("P")
    \/ Run("C")
    \/ ProducerEnqueue
    \/ ProducerPoll
    \/ ProducerWakeLock
    \/ ProducerWakeCs
    \/ ProducerRegisterLock
    \/ ProducerRegisterCs
    \/ ConsumerDequeue
    \/ ConsumerPoll
    \/ ConsumerWakeLock
    \/ ConsumerWakeCs
    \/ ConsumerRegisterLock
    \/ ConsumerRegisterCs

SpecSPSC == InitSPSC /\ [][NextSPSC]_vars

-----------------------------------------------------------------------------
(* The non-suspending API: Producer::try_enqueue, Consumer::try_dequeue.   *)

\* What try_enqueue returns: Err(WouldBlock) when the consumer could not be
\* woken, `res` otherwise.
TryEnqueueRetSwallow(woken, r) == r

TryEnqueueRet(woken, r) ==
    IF woken THEN r ELSE [tag |-> "WouldBlock", val |-> None]

\* What try_dequeue returns: Err(WouldBlock(res.ok())) when the producer
\* could not be woken, `res` otherwise.
TryDequeueRet(woken, r) ==
    IF woken THEN r ELSE [tag |-> "WouldBlock", val |-> r.val]

\* Producer::try_enqueue, `let res = self.inner.enqueue(value)
\* .map_err(ProducerError::Full)`.
ProducerTryEnqueue ==
    /\ pc["P"] = "idle"
    /\ started["P"] < MaxOps
    /\ LET v == started["P"] + 1
           room == Len(inner) < Capacity
       IN /\ inner' = IF room THEN Append(inner, v) ELSE inner
          /\ res' = [res EXCEPT !["P"] =
                IF room THEN [tag |-> "Ok", val |-> None]
                        ELSE [tag |-> "Full", val |-> Some(v)]]
          /\ op' = [op EXCEPT !["P"] =
                [NewOp("try_enqueue", Some(v)) EXCEPT
                    !.moved = IF room THEN 1 ELSE 0]]
          /\ call' = [call EXCEPT !["P"] =
                [NewCall("try_enqueue") EXCEPT !.bufops = 1, !.full = ~room,
                                                !.changed = room]]
    /\ started' = [started EXCEPT !["P"] = @ + 1]
    /\ pc' = [pc EXCEPT !["P"] = "try_wake"]
    /\ UNCHANGED << spscVars, mpmcVars, value_to_enqueue, dequeued_value,
                    notified, enq_hist, deq_hist, last >>

\* Producer::try_enqueue, `if !self.try_wake_consumer()`, the
\* compare_exchange: on contention the call returns Err(WouldBlock) and
\* `res` is dropped.
ProducerTryWakeLock ==
    /\ pc["P"] = "try_wake"
    /\ call' = [call EXCEPT !["P"].locks = @ + 1,
                  !["P"].contended = ~MutexTryLock(consumer_waker.locked),
                  !["P"].done = ~MutexTryLock(consumer_waker.locked)]
    /\ IF MutexTryLock(consumer_waker.locked)
       THEN /\ consumer_waker' = [consumer_waker EXCEPT !.locked = TRUE]
            /\ pc' = [pc EXCEPT !["P"] = "try_wake_cs"]
            /\ UNCHANGED << last, res >>
       ELSE /\ pc' = [pc EXCEPT !["P"] = "idle"]
            /\ last' = [last EXCEPT !["P"] =
                  Ret("try_enqueue", TryEnqueueRet(FALSE, res["P"]).tag,
                      TryEnqueueRet(FALSE, res["P"]).val)]
            /\ res' = [res EXCEPT !["P"] = NoRes]
            /\ UNCHANGED consumer_waker
    /\ UNCHANGED << inner, producer_waker, mpmcVars, value_to_enqueue,
                    dequeued_value, notified, started, enq_hist, deq_hist, op >>

\* Producer::try_enqueue, the critical section of try_wake_consumer:
\* wk.wake(), the guard is dropped and the call returns `res`.
ProducerTryWakeCs ==
    /\ pc["P"] = "try_wake_cs"
    /\ notified' = WakeSlot(consumer_waker.waker, notified)
    /\ consumer_waker' = [locked |-> MutexGuardDrop(consumer_waker.locked),
                         waker |-> None]
    /\ pc' = [pc EXCEPT !["P"] = "idle"]
    /\ last' = [last EXCEPT !["P"] =
          Ret("try_enqueue", TryEnqueueRet(TRUE, res["P"]).tag,
              TryEnqueueRet(TRUE, res["P"]).val)]
    /\ res' = [res EXCEPT !["P"] = NoRes]
    /\ call' = [call EXCEPT !["P"].fired = TRUE, !["P"].done = TRUE]
    /\ op' = [op EXCEPT !["P"].fired = (op["P"].moved > 0)]
    /\ UNCHANGED << inner, producer_waker, mpmcVars, value_to_enqueue,
                    dequeued_value, started, enq_hist, deq_hist >>

\* Consumer::try_dequeue, `let res = if let Some(val) = self.inner.dequeue()
\* { Ok(val) } else { Err(ConsumerError::Empty) }`.
ConsumerTryDequeue ==
    /\ pc["C"] = "idle"
    /\ started["C"] < MaxOps
    /\ LET data == Len(inner) > 0
       IN /\ inner' = IF data THEN Tail(inner) ELSE inner
          /\ res' = [res EXCEPT !["C"] =
                IF data THEN [tag |-> "Ok", val |-> Some(Head(inner))]
                        ELSE [tag |-> "Empty", val |-> None]]
          /\ op' = [op EXCEPT !["C"] =
                [NewOp("try_dequeue", IF data THEN Some(Head(inner)) ELSE None)
                    EXCEPT !.moved = IF data THEN 1 ELSE 0]]
          /\ call' = [call EXCEPT !["C"] =
                [NewCall("try_dequeue") EXCEPT !.bufops = 1, !.empty = ~data,
                                                !.changed = data]]
    /\ started' = [started EXCEPT !["C"] = @ + 1]
    /\ pc' = [pc EXCEPT !["C"] = "try_wake"]
    /\ UNCHANGED << spscVars, mpmcVars, value_to_enqueue, dequeued_value,
                    notified, enq_hist, deq_hist, last >>

\* Consumer::try_dequeue, `if !self.try_wake_producer()`, the
\* compare_exchange: on contention the call returns
\* Err(WouldBlock(res.ok())).
ConsumerTryWakeLock ==
    /\ pc["C"] = "try_wake"
    /\ call' = [call EXCEPT !["C"].locks = @ + 1,
                  !["C"].contended = ~MutexTryLock(producer_waker.locked),
                  !["C"].done = ~MutexTryLock(producer_waker.locked)]
    /\ IF MutexTryLock(producer_waker.locked)
       THEN /\ producer_waker' = [producer_waker EXCEPT !.locked = TRUE]
            /\ pc' = [pc EXCEPT !["C"] = "try_wake_cs"]
            /\ UNCHANGED << last, res >>
       ELSE /\ pc' = [pc EXCEPT !["C"] = "idle"]
            /\ last' = [last EXCEPT !["C"] =
                  Ret("try_dequeue", TryDequeueRet(FALSE, res["C"]).tag,
                      TryDequeueRet(FALSE, res["C"]).val)]
            /\ res' = [res EXCEPT !["C"] = NoRes]
            /\ UNCHANGED producer_waker
    /\ UNCHANGED << inner, consumer_waker, mpmcVars, value_to_enqueue,
                    dequeued_value, notified, started, enq_hist, deq_hist, op >>

\* Consumer::try_dequeue, the critical section of try_wake_producer:
\* wk.wake(), the guard is dropped and the call returns `res`.
ConsumerTryWakeCs ==
    /\ pc["C"] = "try_wake_cs"
    /\ notified' = WakeSlot(producer_waker.waker, notified)
    /\ producer_waker' = [locked |-> MutexGuardDrop(producer_waker.locked),
                         waker |-> None]
    /\ pc' = [pc EXCEPT !["C"] = "idle"]
    /\ last' = [last EXCEPT !["C"] =
          Ret("try_dequeue", TryDequeueRet(TRUE, res["C"]).tag,
              TryDequeueRet(TRUE, res["C"]).val)]
    /\ res' = [res EXCEPT !["C"] = NoRes]
    /\ call' = [call EXCEPT !["C"].fired = TRUE, !["C"].done = TRUE]
    /\ op' = [op EXCEPT !["C"].fired = (op["C"].moved > 0)]
    /\ UNCHANGED << inner, consumer_waker, mpmcVars, value_to_enqueue,
                    dequeued_value, started, enq_hist, deq_hist >>

\* The SPSC queue used through both the suspending and the non-suspending
\* API.
NextTry ==
    \/ NextSPSC
    \/ ProducerTryEnqueue
    \/ ProducerTryWakeLock
    \/ ProducerTryWakeCs
    \/ ConsumerTryDequeue
    \/ ConsumerTryWakeLock
    \/ ConsumerTryWakeCs

SpecTry == InitSPSC /\ [][NextTry]_vars

-----------------------------------------------------------------------------
(* Producer::ready and Consumer::ready.                                    *)

\* self.inner.ready() of the producer half: the buffer is not full.
InnerProducerReadyAlways(buf) == TRUE

InnerProducerReady(buf) == Len(buf) < Capacity

\* self.inner.ready() of the consumer half: the buffer is not empty.
InnerConsumerReady(buf) == Len(buf) > 0

ReadyRet(b) == IF b THEN "true" ELSE "false"

\* Producer::ready, called between two operations of the producer.
ProducerReady ==
    /\ pc["P"] = "idle"
    /\ started["P"] < MaxOps
    /\ call' = [call EXCEPT !["P"] = [NewCall("ready") EXCEPT !.done = TRUE]]
    /\ last' = [last EXCEPT !["P"] =
          Ret("ready", ReadyRet(InnerProducerReady(inner)), None)]
    /\ UNCHANGED << inner, spscVars, mpmcVars, pc, value_to_enqueue,
                    dequeued_value, res, notified, started, enq_hist,
                    deq_hist, op >>

\* Consumer::ready, called between two operations of the consumer.
ConsumerReady ==
    /\ pc["C"] = "idle"
    /\ started["C"] < MaxOps
    /\ call' = [call EXCEPT !["C"] = [NewCall("ready") EXCEPT !.done = TRUE]]
    /\ last' = [last EXCEPT !["C"] =
          Ret("ready", ReadyRet(InnerConsumerReady(inner)), None)]
    /\ UNCHANGED << inner, spscVars, mpmcVars, pc, value_to_enqueue,
                    dequeued_value, res, notified, started, enq_hist,
                    deq_hist, op >>

\* The SPSC queue used through its whole API.
NextReady ==
    \/ NextTry
    \/ ProducerReady
    \/ ConsumerReady

SpecReady == InitSPSC /\ [][NextReady]_vars

-----------------------------------------------------------------------------
(* MPMC: MpMcQueue, EnqueueFuture and DequeueFuture.                       *)

\* MpMcQueue::new: the four tasks share one queue.
InitMPMC ==
    /\ InitCommon
    /\ pc = [t \in Tasks |-> IF t \in MpmcTasks THEN "idle" ELSE "off"]

\* WakerRegistration::is_empty: the slot holds no waker.
IsEmpty(slot) == slot = None

\* `wks.iter_mut().find(|wk| wk.is_empty())`: the first empty slot, 0 when
\* there is none.
FirstEmptyAny(wks) == 1

FirstEmpty(wks) ==
    IF \E i \in DOMAIN wks : IsEmpty(wks[i])
    THEN CHOOSE i \in DOMAIN wks :
            IsEmpty(wks[i]) /\ \A j \in 1..(i - 1) : ~IsEmpty(wks[j])
    ELSE 0

\* `wks.iter_mut().for_each(|wk| wk.wake())`, the executor's part: every
\* task with a waker in the array is marked for another poll.
WakeAllFirst(wks, n) == WakeSlot(wks[1], n)

WakeAll(wks, n) ==
    [t \in Tasks |-> n[t] \/ \E i \in DOMAIN wks : wks[i] = Some(t)]

\* `wks.iter_mut().for_each(|wk| wk.wake())`, the array's part: wake takes
\* the waker out of every slot.
WakeSlots(wks) == [i \in DOMAIN wks |-> None]

\* The number of operations a task of the MPMC queue issues: MpmcOps in the
\* test with four tasks, PairOps when only one pair of tasks uses the queue.
OpsLimit == IF pc["E2"] = "off" /\ pc["D2"] = "off" THEN PairOps ELSE MpmcOps

\* MpMcQueue::enqueue, EnqueueFuture::new: the value is only stored.
MpmcEnqueue(t) ==
    /\ pc[t] = "idle"
    /\ started[t] < OpsLimit
    /\ LET v == started[t] + 1
       IN /\ value_to_enqueue' = [value_to_enqueue EXCEPT ![t] = Some(v)]
          /\ enq_hist' = Append(enq_hist, v)
          /\ op' = [op EXCEPT ![t] = NewOp("enqueue", Some(v))]
    /\ started' = [started EXCEPT ![t] = @ + 1]
    /\ pc' = [pc EXCEPT ![t] = "poll"]
    /\ call' = [call EXCEPT ![t] = NewCall("poll")]
    /\ UNCHANGED << inner, spscVars, mpmcVars, dequeued_value, res,
                    notified, deq_hist, last >>

\* EnqueueFuture::poll up to the first attempt on a cell.
EnqueuePoll(t) ==
    /\ pc[t] = "poll"
    /\ IF ~IsSome(value_to_enqueue[t])
       THEN /\ pc' = [pc EXCEPT ![t] = "wake"]
            /\ UNCHANGED << inner, value_to_enqueue, call, op >>
       ELSE LET v == value_to_enqueue[t][1]
                room == Len(inner) < MpmcCapacity
            IN /\ inner' = IF room THEN Append(inner, v) ELSE inner
               /\ value_to_enqueue' = [value_to_enqueue EXCEPT ![t] =
                      IF room THEN KeepAfterPush(v) ELSE Some(v)]
               /\ pc' = [pc EXCEPT ![t] = AfterPush(room)]
               /\ call' = [call EXCEPT ![t].bufops = @ + 1,
                                       ![t].full = ~room,
                                       ![t].changed = room]
               /\ op' = [op EXCEPT ![t].moved = IF room THEN @ + 1 ELSE @]
    /\ UNCHANGED << spscVars, mpmcVars, dequeued_value, res, notified,
                    started, enq_hist, deq_hist, last >>

\* EnqueueFuture::try_wake_dequeuers, the compare_exchange of try_lock; on
\* contention poll invokes wake_by_ref and returns Pending.
EnqueueWakeLock(t) ==
    /\ pc[t] = "wake"
    /\ call' = [call EXCEPT ![t].locks = @ + 1,
                  ![t].contended = ~LockTryLock(dequeue_wakers.lock),
                  ![t].selfwake = ~LockTryLock(dequeue_wakers.lock),
                  ![t].done = ~LockTryLock(dequeue_wakers.lock)]
    /\ IF LockTryLock(dequeue_wakers.lock)
       THEN /\ dequeue_wakers' = [dequeue_wakers EXCEPT !.lock = LOCKED]
            /\ pc' = [pc EXCEPT ![t] = "wake_cs"]
            /\ UNCHANGED << notified, last >>
       ELSE /\ notified' = WakeByRef(t, notified)
            /\ pc' = [pc EXCEPT ![t] = AfterContended(pc[t])]
            /\ last' = [last EXCEPT ![t] = Ret("enqueue", "Pending", None)]
            /\ UNCHANGED dequeue_wakers
    /\ UNCHANGED << inner, spscVars, enqueue_wakers, value_to_enqueue,
                    dequeued_value, res, started, enq_hist, deq_hist >>
    /\ op' = [op EXCEPT ![t].contended = @ \/ ~LockTryLock(dequeue_wakers.lock)]

\* EnqueueFuture::try_wake_dequeuers, the closure: every slot is woken, the
\* flag is stored UNLOCKED and poll returns Ready.
EnqueueWakeCs(t) ==
    /\ pc[t] = "wake_cs"
    /\ notified' = WakeAll(dequeue_wakers.wakers, notified)
    /\ dequeue_wakers' = [lock |-> UNLOCKED,
                          wakers |-> WakeSlots(dequeue_wakers.wakers)]
    /\ pc' = [pc EXCEPT ![t] = "idle"]
    /\ last' = [last EXCEPT ![t] = Ret("enqueue", "Ready", None)]
    /\ call' = [call EXCEPT ![t].fired = TRUE, ![t].done = TRUE]
    /\ op' = [op EXCEPT ![t].fired = (op[t].moved > 0)]
    /\ UNCHANGED << inner, spscVars, enqueue_wakers, value_to_enqueue,
                    dequeued_value, res, started, enq_hist, deq_hist >>

\* EnqueueFuture::register_waker, the compare_exchange of try_lock; on
\* contention poll invokes wake_by_ref and returns Pending.
EnqueueRegisterLock(t) ==
    /\ pc[t] = "register"
    /\ call' = [call EXCEPT ![t].locks = @ + 1,
                  ![t].contended = ~LockTryLock(enqueue_wakers.lock),
                  ![t].selfwake = ~LockTryLock(enqueue_wakers.lock),
                  ![t].done = ~LockTryLock(enqueue_wakers.lock)]
    /\ IF LockTryLock(enqueue_wakers.lock)
       THEN /\ enqueue_wakers' = [enqueue_wakers EXCEPT !.lock = LOCKED]
            /\ pc' = [pc EXCEPT ![t] = "register_cs"]
            /\ UNCHANGED << notified, last >>
       ELSE /\ notified' = WakeByRef(t, notified)
            /\ pc' = [pc EXCEPT ![t] = AfterContended(pc[t])]
            /\ last' = [last EXCEPT ![t] = Ret("enqueue", "Pending", None)]
            /\ UNCHANGED enqueue_wakers
    /\ UNCHANGED << inner, spscVars, dequeue_wakers, value_to_enqueue,
                    dequeued_value, res, started, enq_hist, deq_hist, op >>

\* EnqueueFuture::register_waker, the closure: the first empty slot takes
\* the waker; without one poll invokes wake_by_ref.  The flag is stored
\* UNLOCKED and poll returns Pending.
EnqueueRegisterCs(t) ==
    /\ pc[t] = "register_cs"
    /\ LET i == FirstEmpty(enqueue_wakers.wakers)
       IN /\ enqueue_wakers' =
                [lock |-> UNLOCKED,
                 wakers |-> IF i = 0 THEN enqueue_wakers.wakers
                            ELSE [enqueue_wakers.wakers EXCEPT
                                     ![i] = Register(@, t)]]
          /\ notified' = IF i = 0 THEN WakeByRef(t, notified) ELSE notified
          /\ call' = [call EXCEPT ![t].registered = (i # 0),
                                  ![t].selfwake = (i = 0),
                                  ![t].done = TRUE]
    /\ pc' = [pc EXCEPT ![t] = "pending"]
    /\ last' = [last EXCEPT ![t] = Ret("enqueue", "Pending", None)]
    /\ UNCHANGED << inner, spscVars, dequeue_wakers, value_to_enqueue,
                    dequeued_value, res, started, enq_hist, deq_hist, op >>

\* MpMcQueue::dequeue, DequeueFuture::new.
MpmcDequeue(t) ==
    /\ pc[t] = "idle"
    /\ started[t] < OpsLimit
    /\ started' = [started EXCEPT ![t] = @ + 1]
    /\ dequeued_value' = [dequeued_value EXCEPT ![t] = None]
    /\ op' = [op EXCEPT ![t] = NewOp("dequeue", None)]
    /\ pc' = [pc EXCEPT ![t] = "poll"]
    /\ call' = [call EXCEPT ![t] = NewCall("poll")]
    /\ UNCHANGED << inner, spscVars, mpmcVars, value_to_enqueue, res,
                    notified, enq_hist, deq_hist, last >>

\* DequeueFuture::poll up to the first attempt on a cell.
DequeuePoll(t) ==
    /\ pc[t] = "poll"
    /\ IF Holds(dequeued_value[t])
       THEN /\ pc' = [pc EXCEPT ![t] = "wake"]
            /\ UNCHANGED << inner, dequeued_value, call, op >>
       ELSE LET data == Len(inner) > 0
            IN /\ inner' = IF data THEN Tail(inner) ELSE inner
               /\ dequeued_value' = [dequeued_value EXCEPT ![t] =
                      IF data THEN Some(Head(inner)) ELSE None]
               /\ pc' = [pc EXCEPT ![t] = IF data THEN "wake" ELSE "register"]
               /\ call' = [call EXCEPT ![t].bufops = @ + 1,
                                       ![t].empty = ~data,
                                       ![t].changed = data]
               /\ op' = [op EXCEPT ![t].moved = IF data THEN @ + 1 ELSE @,
                                   ![t].item = IF data THEN Some(Head(inner))
                                               ELSE @]
    /\ UNCHANGED << spscVars, mpmcVars, value_to_enqueue, res, notified,
                    started, enq_hist, deq_hist, last >>

\* DequeueFuture::try_wake_enqueuers, the compare_exchange of try_lock; on
\* contention the closure of poll stores the item, invokes wake_by_ref and
\* poll returns Pending.
DequeueWakeLock(t) ==
    /\ pc[t] = "wake"
    /\ call' = [call EXCEPT ![t].locks = @ + 1,
                  ![t].contended = ~LockTryLock(enqueue_wakers.lock),
                  ![t].selfwake = ~LockTryLock(enqueue_wakers.lock),
                  ![t].done = ~LockTryLock(enqueue_wakers.lock)]
    /\ IF LockTryLock(enqueue_wakers.lock)
       THEN /\ enqueue_wakers' = [enqueue_wakers EXCEPT !.lock = LOCKED]
            /\ pc' = [pc EXCEPT ![t] = "wake_cs"]
            /\ UNCHANGED << notified, last, dequeued_value >>
       ELSE /\ dequeued_value' = [dequeued_value EXCEPT ![t] =
                                     HoldValue(dequeued_value[t][1])]
            /\ notified' = WakeByRef(t, notified)
            /\ pc' = [pc EXCEPT ![t] = AfterContended(pc[t])]
            /\ last' = [last EXCEPT ![t] = Ret("dequeue", "Pending", None)]
            /\ UNCHANGED enqueue_wakers
    /\ UNCHANGED << inner, spscVars, dequeue_wakers, value_to_enqueue, res,
                    started, enq_hist, deq_hist >>
    /\ op' = [op EXCEPT ![t].contended = @ \/ ~LockTryLock(enqueue_wakers.lock)]

\* DequeueFuture::try_wake_enqueuers, the closure: every slot is woken, the
\* flag is stored UNLOCKED and poll returns Ready(value).
DequeueWakeCs(t) ==
    /\ pc[t] = "wake_cs"
    /\ notified' = WakeAll(enqueue_wakers.wakers, notified)
    /\ enqueue_wakers' = [lock |-> UNLOCKED,
                          wakers |-> WakeSlots(enqueue_wakers.wakers)]
    /\ pc' = [pc EXCEPT ![t] = "idle"]
    /\ last' = [last EXCEPT ![t] = Ret("dequeue", "Ready", dequeued_value[t])]
    /\ deq_hist' = deq_hist \o dequeued_value[t]
    /\ dequeued_value' = [dequeued_value EXCEPT ![t] = None]
    /\ call' = [call EXCEPT ![t].fired = TRUE, ![t].done = TRUE]
    /\ op' = [op EXCEPT ![t].fired = (op[t].moved > 0)]
    /\ UNCHANGED << inner, spscVars, dequeue_wakers, value_to_enqueue, res,
                    started, enq_hist >>

\* DequeueFuture::register_waker, the compare_exchange of try_lock; on
\* contention poll invokes wake_by_ref and returns Pending.
DequeueRegisterLock(t) ==
    /\ pc[t] = "register"
    /\ call' = [call EXCEPT ![t].locks = @ + 1,
                  ![t].contended = ~LockTryLock(dequeue_wakers.lock),
                  ![t].selfwake = ~LockTryLock(dequeue_wakers.lock),
                  ![t].done = ~LockTryLock(dequeue_wakers.lock)]
    /\ IF LockTryLock(dequeue_wakers.lock)
       THEN /\ dequeue_wakers' = [dequeue_wakers EXCEPT !.lock = LOCKED]
            /\ pc' = [pc EXCEPT ![t] = "register_cs"]
            /\ UNCHANGED << notified, last >>
       ELSE /\ notified' = WakeByRef(t, notified)
            /\ pc' = [pc EXCEPT ![t] = AfterContended(pc[t])]
            /\ last' = [last EXCEPT ![t] = Ret("dequeue", "Pending", None)]
            /\ UNCHANGED dequeue_wakers
    /\ UNCHANGED << inner, spscVars, enqueue_wakers, value_to_enqueue,
                    dequeued_value, res, started, enq_hist, deq_hist, op >>

\* DequeueFuture::register_waker, the closure: the first empty slot takes
\* the waker; without one poll invokes wake_by_ref.  The flag is stored
\* UNLOCKED and poll returns Pending.
DequeueRegisterCs(t) ==
    /\ pc[t] = "register_cs"
    /\ LET i == FirstEmpty(dequeue_wakers.wakers)
       IN /\ dequeue_wakers' =
                [lock |-> UNLOCKED,
                 wakers |-> IF i = 0 THEN dequeue_wakers.wakers
                            ELSE [dequeue_wakers.wakers EXCEPT
                                     ![i] = Register(@, t)]]
          /\ notified' = IF i = 0 THEN WakeByRef(t, notified) ELSE notified
          /\ call' = [call EXCEPT ![t].registered = (i # 0),
                                  ![t].selfwake = (i = 0),
                                  ![t].done = TRUE]
    /\ pc' = [pc EXCEPT ![t] = "pending"]
    /\ last' = [last EXCEPT ![t] = Ret("dequeue", "Pending", None)]
    /\ UNCHANGED << inner, spscVars, enqueue_wakers, value_to_enqueue,
                    dequeued_value, res, started, enq_hist, deq_hist, op >>

RunMpmc == \E t \in MpmcTasks : Run(t)

EnqueuerStep ==
    \E t \in Enqueuers :
        \/ MpmcEnqueue(t)
        \/ EnqueuePoll(t)
        \/ EnqueueWakeLock(t)
        \/ EnqueueWakeCs(t)
        \/ EnqueueRegisterLock(t)
        \/ EnqueueRegisterCs(t)

DequeuerStep ==
    \E t \in Dequeuers :
        \/ MpmcDequeue(t)
        \/ DequeuePoll(t)
        \/ DequeueWakeLock(t)
        \/ DequeueWakeCs(t)
        \/ DequeueRegisterLock(t)
        \/ DequeueRegisterCs(t)

NextMPMC == RunMpmc \/ EnqueuerStep \/ DequeuerStep

SpecMPMC == InitMPMC /\ [][NextMPMC]_vars

\* The same four tasks on a queue with a waker slot for every task of a side
\* (MpMcQueue<T, WideW, N>).
InitWide ==
    /\ InitWidth(WideW)
    /\ pc = [t \in Tasks |-> IF t \in MpmcTasks THEN "idle" ELSE "off"]

SpecWide == InitWide /\ [][NextMPMC]_vars

-----------------------------------------------------------------------------
(* Either queue, with every operation of its API.                          *)

Init == InitSPSC \/ InitMPMC

Next == NextTry \/ NextMPMC

Spec == Init /\ [][Next]_vars

-----------------------------------------------------------------------------
(* Polls that no waker asked for.  Future::poll may be called at any time  *)
(* (a future polled inside a select or join is polled whenever its task is *)
(* woken for any reason); the operations are run here under such an        *)
(* executor as well.                                                       *)

\* A pending operation is polled although its waker has not been invoked.
SpuriousPoll(t) ==
    /\ pc[t] = "pending"
    /\ ~notified[t]
    /\ pc' = [pc EXCEPT ![t] = "poll"]
    /\ call' = [call EXCEPT ![t] = NewCall("poll")]
    /\ UNCHANGED << inner, spscVars, mpmcVars, value_to_enqueue,
                    dequeued_value, res, notified, started, enq_hist,
                    deq_hist, last, op >>

\* An MpMcQueue with W = 1 used by one enqueuing and one dequeuing task.
InitPair ==
    /\ InitCommon
    /\ pc = [t \in Tasks |-> IF t \in {"E1", "D1"} THEN "idle" ELSE "off"]

\* The SPSC pair, or the MPMC queue used by one pair of tasks, under an
\* executor that may also poll without being asked.
NextPair ==
    \/ NextSPSC
    \/ NextMPMC
    \/ \E t \in Tasks : SpuriousPoll(t)

SpecPair == (InitSPSC \/ InitPair) /\ [][NextPair]_vars

\* The four tasks on the queue with WideW slots per direction, polled by
\* such an executor.
NextWidePoll == NextMPMC \/ \E t \in MpmcTasks : SpuriousPoll(t)

SpecWidePoll == InitWide /\ [][NextWidePoll]_vars

-----------------------------------------------------------------------------
(* Cancellation.  ConsumerFuture and DequeueFuture have no Drop            *)
(* implementation: dropping a pending future drops its fields, the         *)
(* dequeued_value it holds included, and leaves a registered waker in its  *)
(* slot.                                                                   *)

\* The task that owns a pending dequeue drops the future; `last` records
\* what went away with it.
DequeueDrop(t) ==
    /\ pc[t] = "pending"
    /\ op[t].kind = "dequeue"
    /\ pc' = [pc EXCEPT ![t] = "idle"]
    /\ last' = [last EXCEPT ![t] = Ret("drop", "Dropped", dequeued_value[t])]
    /\ dequeued_value' = [dequeued_value EXCEPT ![t] = None]
    /\ notified' = [notified EXCEPT ![t] = FALSE]
    /\ UNCHANGED << inner, spscVars, mpmcVars, value_to_enqueue, res, started,
                    enq_hist, deq_hist, call, op >>

NextDrop ==
    \/ NextSPSC
    \/ NextMPMC
    \/ \E t \in {"C"} \cup Dequeuers : DequeueDrop(t)

\* Either queue used by one pair of tasks whose dequeues may be dropped.
SpecDrop == (InitSPSC \/ InitPair) /\ [][NextDrop]_vars

-----------------------------------------------------------------------------
(* One WakerRegistration taken alone (the slot of producer_waker), under   *)
(* any sequence of register calls with the wakers of two tasks and of wake *)
(* calls.                                                                  *)

InitWaker ==
    /\ InitCommon
    /\ pc = [t \in Tasks |-> "off"]

\* wk.register(waker) with the waker of task t; `started` counts the calls.
SlotRegister(t) ==
    /\ started[t] < MaxRegs
    /\ started' = [started EXCEPT ![t] = @ + 1]
    /\ producer_waker' = [producer_waker EXCEPT !.waker = Register(@, t)]
    /\ UNCHANGED << inner, consumer_waker, mpmcVars, pc, value_to_enqueue,
                    dequeued_value, res, notified, enq_hist, deq_hist,
                    last, call, op >>

\* wk.wake(): the waker is taken out of the slot and invoked.
SlotWake ==
    /\ notified' = WakeSlot(producer_waker.waker, notified)
    /\ producer_waker' = [producer_waker EXCEPT !.waker = None]
    /\ UNCHANGED << inner, consumer_waker, mpmcVars, pc, value_to_enqueue,
                    dequeued_value, res, started, enq_hist, deq_hist,
                    last, call, op >>

NextWaker ==
    \/ \E t \in SpscTasks : SlotRegister(t)
    \/ SlotWake

SpecWaker == InitWaker /\ [][NextWaker]_vars

-----------------------------------------------------------------------------
(* Scheduling of the SPSC tasks: a task that has been woken is run, and a  *)
(* running task goes on to the end of its poll.  Whether a task issues     *)
(* another operation is up to the task.                                    *)

ProducerProgress ==
    \/ Run("P")
    \/ ProducerPoll
    \/ ProducerWakeLock
    \/ ProducerWakeCs
    \/ ProducerRegisterLock
    \/ ProducerRegisterCs

ConsumerProgress ==
    \/ Run("C")
    \/ ConsumerPoll
    \/ ConsumerWakeLock
    \/ ConsumerWakeCs
    \/ ConsumerRegisterLock
    \/ ConsumerRegisterCs

FairSPSC ==
    SpecSPSC /\ WF_vars(ProducerProgress) /\ WF_vars(ConsumerProgress)

\* Scheduling of the MPMC tasks (the tokio tasks of the test): every task
\* issues its operations, is run when it has been woken, and goes on to the
\* end of its poll.
TaskStep(t) ==
    \/ Run(t)
    \/ MpmcEnqueue(t)
    \/ EnqueuePoll(t)
    \/ EnqueueWakeLock(t)
    \/ EnqueueWakeCs(t)
    \/ EnqueueRegisterLock(t)
    \/ EnqueueRegisterCs(t)
    \/ MpmcDequeue(t)
    \/ DequeuePoll(t)
    \/ DequeueWakeLock(t)
    \/ DequeueWakeCs(t)
    \/ DequeueRegisterLock(t)
    \/ DequeueRegisterCs(t)

FairMPMC == SpecMPMC /\ \A t \in MpmcTasks : WF_vars(TaskStep(t))

-----------------------------------------------------------------------------
(* Properties.                                                             *)

Cells == {"producer_waker", "consumer_waker", "enqueue_wakers", "dequeue_wakers"}

\* The tasks inside a critical section of cell c.
Holders(c) ==
    {t \in Tasks :
        \/ /\ c = "consumer_waker"
           /\ \/ t = "P" /\ pc[t] \in {"wake_cs", "try_wake_cs"}
              \/ t = "C" /\ pc[t] = "register_cs"
        \/ /\ c = "producer_waker"
           /\ \/ t = "C" /\ pc[t] \in {"wake_cs", "try_wake_cs"}
              \/ t = "P" /\ pc[t] = "register_cs"
        \/ /\ c = "dequeue_wakers"
           /\ \/ t \in Enqueuers /\ pc[t] = "wake_cs"
              \/ t \in Dequeuers /\ pc[t] = "register_cs"
        \/ /\ c = "enqueue_wakers"
           /\ \/ t \in Dequeuers /\ pc[t] = "wake_cs"
              \/ t \in Enqueuers /\ pc[t] = "register_cs"}

\* A try_lock on cell c attempted now would succeed.
WouldAcquire(c) ==
    CASE c = "consumer_waker" -> MutexTryLock(consumer_waker.locked)
      [] c = "producer_waker" -> MutexTryLock(producer_waker.locked)
      [] c = "dequeue_wakers" -> LockTryLock(dequeue_wakers.lock)
      [] c = "enqueue_wakers" -> LockTryLock(enqueue_wakers.lock)

\* C1: at most one task is inside a critical section of a cell, and while
\* one is, a try_lock attempted by any other task observes contention.
C1_MutualExclusion ==
    \A c \in Cells :
        /\ Cardinality(Holders(c)) <= 1
        /\ Holders(c) # {} => ~WouldAcquire(c)

\* The producer is inside its critical section on the consumer-side cell and
\* the consumer's registration attempt has just observed contention.
C1_Witness ==
    /\ pc["P"] = "wake_cs"
    /\ pc["C"] = "pending"
    /\ call["C"].empty
    /\ call["C"].contended

IsPrefix(s, t) ==
    /\ Len(s) <= Len(t)
    /\ \A i \in 1..Len(s) : s[i] = t[i]

\* C2: the values returned by completed dequeues are a prefix of the values
\* passed to enqueue, and the two sequences are equal once every operation
\* has completed and as many dequeues as enqueues were issued.
C2_Fifo ==
    /\ IsPrefix(deq_hist, enq_hist)
    /\ (pc["P"] = "idle" /\ pc["C"] = "idle" /\ started["C"] = started["P"])
          => deq_hist = enq_hist

\* Every enqueue and every dequeue has completed, the last enqueue after a
\* contended notification.
C2_Witness ==
    /\ pc["P"] = "idle"
    /\ pc["C"] = "idle"
    /\ Len(deq_hist) = MaxOps
    /\ deq_hist = enq_hist
    /\ op["P"].contended

Count(s, v) == Cardinality({i \in 1..Len(s) : s[i] = v})

AllMpmcIdle == \A t \in MpmcTasks : pc[t] = "idle"

DequeuesIssued == started["D1"] + started["D2"]

\* C3: no value is returned by completed dequeues more often than it was
\* enqueued, and once every operation has completed (as many dequeues as
\* enqueues) every value was returned exactly as often as it was enqueued.
C3_ExactlyOnce ==
    \A v \in 1..MpmcOps :
        /\ Count(deq_hist, v) <= Count(enq_hist, v)
        /\ (AllMpmcIdle /\ DequeuesIssued = Len(enq_hist))
              => Count(deq_hist, v) = Count(enq_hist, v)

\* All four tasks have completed all their operations.
C3_Witness ==
    /\ AllMpmcIdle
    /\ \A t \in MpmcTasks : started[t] = MpmcOps
    /\ Len(deq_hist) = 2 * MpmcOps

\* Task t returned Pending after parking and has not been woken since.
Parked(t) == pc[t] = "pending" /\ ~notified[t]

\* C4: no operation stays parked while the buffer would let it progress and
\* the peer is idle: not the dequeue with data in the buffer, not the
\* enqueue with room in the buffer.
C4_NoLostWakeup ==
    /\ ~(Parked("C") /\ Len(inner) > 0 /\ pc["P"] = "idle")
    /\ ~(Parked("P") /\ Len(inner) < Capacity /\ pc["C"] = "idle")

\* The enqueue of task t has transferred its item and its latest poll found
\* the consumer-side cell locked.
NotifyContended(t) ==
    /\ op[t].kind = "enqueue"
    /\ op[t].moved = 1
    /\ call[t].contended
    /\ pc[t] = "pending"

\* The enqueue of task t has fired the consumer's slot and returned Ready.
Notified(t) ==
    /\ pc[t] = "idle"
    /\ last[t] = Ret("enqueue", "Ready", None)
    /\ op[t].fired

\* C5: an enqueue that transferred its item and found the consumer-side cell
\* locked eventually acquires the cell, fires the slot and completes.
C5_EventualNotification == NotifyContended("P") ~> Notified("P")

\* The producer's notification attempt was contended.
C5_Witness == NotifyContended("P")

\* The poll of task t that returned Ready for operation `kind` has just
\* ended.
Completed(t, kind) ==
    /\ pc[t] = "idle"
    /\ last[t].api = kind
    /\ last[t].ret = "Ready"

\* C6: an enqueue returns Ready only when its item has been pushed, once,
\* and the operation has afterwards acquired the consumer-side cell and
\* fired it, in a poll whose notification attempt was not contended; the
\* operation no longer holds the item.
C6_EnqueueReady ==
    \A t \in {"P"} \cup Enqueuers :
        Completed(t, "enqueue") =>
            /\ op[t].moved = 1
            /\ op[t].fired
            /\ call[t].fired
            /\ ~call[t].contended
            /\ value_to_enqueue[t] = None

\* An enqueue whose notification was contended on an earlier poll has
\* completed, on either queue.
C6_Witness ==
    \E t \in {"P"} \cup Enqueuers :
        /\ Completed(t, "enqueue")
        /\ op[t].contended
        /\ call[t].bufops = 0

\* C7: a dequeue returns Ready only when it has popped exactly one item and
\* has afterwards acquired the producer-side cell and fired it; the value
\* returned is the popped item.
C7_DequeueReady ==
    \A t \in {"C"} \cup Dequeuers :
        Completed(t, "dequeue") =>
            /\ op[t].moved = 1
            /\ op[t].fired
            /\ call[t].fired
            /\ ~call[t].contended
            /\ IsSome(last[t].val)
            /\ last[t].val = op[t].item
            /\ dequeued_value[t] = None

\* A dequeue has completed in a poll that popped nothing: the item was held
\* across polls after a contended notification.
C7_Witness ==
    \E t \in {"C"} \cup Dequeuers :
        /\ Completed(t, "dequeue")
        /\ op[t].contended
        /\ call[t].bufops = 0

\* The try_ call of task t has returned.
Returned(t, api) == call[t].api = api /\ call[t].done /\ pc[t] = "idle"

\* C8: try_enqueue on a full buffer reports Full and does not change the
\* buffer; try_dequeue on an empty buffer reports Empty and does not change
\* the buffer; whatever the state of the peer's waker cell.
C8_CapacityBoundary ==
    /\ (Returned("P", "try_enqueue") /\ call["P"].full)
          => (last["P"].ret = "Full" /\ ~call["P"].changed)
    /\ (Returned("C", "try_dequeue") /\ call["C"].empty)
          => (last["C"].ret = "Empty" /\ ~call["C"].changed)

\* C9: a try_ call returns WouldBlock exactly when its one notification
\* attempt found the peer's cell locked; otherwise it returns Ok, Full or
\* Empty and has fired the peer's slot; it makes one buffer access and one
\* attempt on the cell.
C9_WouldBlock ==
    \A t \in SpscTasks :
        \A api \in {"try_enqueue", "try_dequeue"} :
            Returned(t, api) =>
                /\ last[t].api = api
                /\ last[t].ret = "WouldBlock" <=> call[t].contended
                /\ last[t].ret # "WouldBlock" =>
                      /\ call[t].fired
                      /\ last[t].ret \in {"Ok", "Full", "Empty"}
                /\ call[t].locks = 1
                /\ call[t].bufops = 1
                /\ ~call[t].selfwake

\* try_enqueue has pushed its item and returned WouldBlock.
C9_Witness ==
    /\ Returned("P", "try_enqueue")
    /\ last["P"].ret = "WouldBlock"
    /\ call["P"].changed

\* C10: an enqueue polled on a full buffer returns Pending; once a dequeue
\* has removed the occupant the enqueue does not stay pending with the
\* queue at rest (the enqueue parked, the later dequeue parked); and the
\* dequeues return the enqueued values in order.
C10_BackPressure ==
    /\ (call["P"].api = "poll" /\ call["P"].done /\ call["P"].full)
          => (pc["P"] = "pending" /\ last["P"].ret = "Pending")
    /\ ~(/\ Parked("P")
         /\ IsSome(value_to_enqueue["P"])
         /\ Len(inner) < Capacity
         /\ Parked("C"))
    /\ IsPrefix(deq_hist, enq_hist)

\* The waker array an operation of task t fires: the other side's.
PeerWakers(t) == IF t \in Enqueuers THEN dequeue_wakers ELSE enqueue_wakers

\* Task t leaves the critical section of its notification in this step.
FiresPeers(t) == pc[t] = "wake_cs" /\ pc'[t] = "idle"

\* C11: the critical section in which an enqueue (a dequeue) fires the
\* dequeue-side (enqueue-side) array marks the task of every occupied slot
\* for resumption and leaves every slot empty and the array unlocked; and
\* no more items are returned than were enqueued.
C11_BroadcastWake ==
    /\ [][\A t \in MpmcTasks :
            FiresPeers(t) =>
                /\ \A i \in DOMAIN PeerWakers(t).wakers :
                      IsSome(PeerWakers(t).wakers[i]) =>
                          notified'[PeerWakers(t).wakers[i][1]]
                /\ \A i \in DOMAIN PeerWakers(t)'.wakers :
                      PeerWakers(t)'.wakers[i] = None
                /\ PeerWakers(t)'.lock = UNLOCKED]_vars
    /\ [](Len(deq_hist) <= Len(enq_hist))

\* One enqueue has been issued and has completed; both dequeuers, which had
\* parked in the two slots, are marked for resumption and the slots are
\* empty.
C11_Witness ==
    /\ started["E1"] = 1
    /\ started["E2"] = 0
    /\ Completed("E1", "enqueue")
    /\ \A d \in Dequeuers :
          /\ pc[d] = "pending"
          /\ call[d].registered
          /\ notified[d]
    /\ \A i \in DOMAIN dequeue_wakers.wakers : dequeue_wakers.wakers[i] = None

\* The waker array an operation of task t parks in: its own side's.
OwnWakers(t) == IF t \in Enqueuers THEN enqueue_wakers ELSE dequeue_wakers

\* The registration attempt of task t ends in this step, either at a
\* contended try_lock or at the end of the critical section.
RegistrationEnds(t) == pc[t] \in {"register", "register_cs"} /\ pc'[t] = "pending"

\* C12: a registration takes the first empty slot of its side's array and
\* touches no other slot; when the array is locked by another task or has
\* no empty slot, no slot is modified and the operation invokes its own
\* waker; in every case poll returns Pending and no occupied slot loses its
\* waker.
C12_PoolExhaustion ==
    [][\A t \in MpmcTasks :
          RegistrationEnds(t) =>
              LET w == OwnWakers(t).wakers
                  w2 == OwnWakers(t)'.wakers
                  failed == \/ pc[t] = "register"
                            \/ \A i \in DOMAIN w : IsSome(w[i])
              IN /\ last'[t].ret = "Pending"
                 /\ \A i \in DOMAIN w : IsSome(w[i]) => w2[i] = w[i]
                 /\ failed => (w2 = w /\ notified'[t])
                 /\ ~failed =>
                       \E i \in DOMAIN w :
                           /\ w[i] = None
                           /\ \A j \in 1..(i - 1) : IsSome(w[j])
                           /\ w2 = [w EXCEPT ![i] = Some(t)]
                           /\ notified'[t] = notified[t]]_vars

\* A dequeuer acquired its side's array, found the only slot taken by the
\* other dequeuer, and returned Pending after invoking its own waker.
C12_Witness ==
    /\ pc["D2"] = "pending"
    /\ call["D2"].locks = 1
    /\ ~call["D2"].contended
    /\ ~call["D2"].registered
    /\ call["D2"].selfwake
    /\ notified["D2"]
    /\ dequeue_wakers.lock = UNLOCKED
    /\ dequeue_wakers.wakers[1] = Some("D1")

\* C13: with one waker slot per side, two enqueuing and two dequeuing tasks
\* and as many enqueues as dequeues, every operation that has been issued
\* eventually completes.
C13_Liveness == \A t \in MpmcTasks : (pc[t] # "idle") ~> (pc[t] = "idle")

\* C14: a waker slot holds at most one waker; a register call of task t on
\* a slot holding the waker of another task leaves exactly t's waker in the
\* slot, on a slot holding t's waker it leaves the slot as it was, and on
\* an empty slot it stores t's waker.
C14_NoDoublePark ==
    /\ [](Len(producer_waker.waker) <= 1)
    /\ [][\A t \in SpscTasks :
            started'[t] = started[t] + 1 =>
                LET slot == producer_waker.waker
                    slot2 == producer_waker'.waker
                IN /\ (IsSome(slot) /\ slot[1] # t) => slot2 = Some(t)
                   /\ (IsSome(slot) /\ slot[1] = t) => slot2 = slot
                   /\ slot = None => slot2 = Some(t)]_vars

\* Both tasks have registered once and no waker was taken out in between:
\* the consumer's waker has replaced the producer's.
C14_Witness ==
    /\ pc["P"] = "off"
    /\ started["P"] = 1
    /\ started["C"] = 1
    /\ ~notified["P"]
    /\ ~notified["C"]
    /\ producer_waker.waker = Some("C")

\* The operation task t is in was created right after a ready() call of t
\* that returned true, and has not returned from its first poll.
AfterReady(t) ==
    /\ last[t] = Ret("ready", "true", None)
    /\ call[t].api = "poll"

\* C15: the first enqueue after Producer::ready() returned true has pushed
\* its item when it was created and never finds the buffer full; the first
\* dequeue after Consumer::ready() returned true does not find the buffer
\* empty when it pops; whatever the peer did in between.
C15_ReadyPromise ==
    /\ AfterReady("P") =>
          /\ op["P"].kind = "enqueue"
          /\ op["P"].moved = 1
          /\ value_to_enqueue["P"] = None
          /\ ~call["P"].full
    /\ AfterReady("C") =>
          /\ op["C"].kind = "dequeue"
          /\ ~call["C"].empty
          /\ call["C"].bufops = 1 => (op["C"].moved = 1 /\ IsSome(dequeued_value["C"]))

\* Both halves are in the first poll of an operation created after their
\* ready() returned true: the producer's last enqueue is about to notify,
\* the consumer has made its pop, and a dequeue has completed before.
C15_Witness ==
    /\ AfterReady("P")
    /\ pc["P"] = "wake"
    /\ started["P"] = MaxOps
    /\ Len(deq_hist) >= 1
    /\ AfterReady("C")
    /\ call["C"].bufops = 1

\* Task t is about to make the compare_exchange of a try_lock.
AtTryLock(t) == pc[t] \in {"wake", "register", "try_wake"}

\* The flag of the cell that try_lock of task t is made on is LOCKED.
TargetLocked(t) ==
    CASE t = "P" -> IF pc[t] = "register" THEN producer_waker.locked = TRUE
                    ELSE consumer_waker.locked = TRUE
      [] t = "C" -> IF pc[t] = "register" THEN consumer_waker.locked = TRUE
                    ELSE producer_waker.locked = TRUE
      [] t \in Enqueuers ->
            IF pc[t] = "register" THEN enqueue_wakers.lock = LOCKED
            ELSE dequeue_wakers.lock = LOCKED
      [] t \in Dequeuers ->
            IF pc[t] = "register" THEN dequeue_wakers.lock = LOCKED
            ELSE enqueue_wakers.lock = LOCKED

\* C17: a try_lock made while the flag is LOCKED returns without entering
\* the critical section: the caller goes straight to its return, no flag
\* and no waker slot of any cell changes, nothing is fired or registered
\* and no other task is woken.
C17_ContendedNoEffect ==
    [][\A t \in Tasks :
          (AtTryLock(t) /\ pc'[t] # pc[t] /\ TargetLocked(t)) =>
              /\ pc'[t] \in {"pending", "idle"}
              /\ UNCHANGED << producer_waker, consumer_waker,
                              enqueue_wakers, dequeue_wakers >>
              /\ call'[t].contended
              /\ ~call'[t].fired
              /\ ~call'[t].registered
              /\ \A u \in Tasks \ {t} : notified'[u] = notified[u]]_vars

\* An enqueuer is inside its critical section on the dequeue-side array,
\* whose flag is still LOCKED after a dequeuer's registration attempt was
\* turned away.
C17_Witness ==
    /\ \E e \in Enqueuers : pc[e] = "wake_cs"
    /\ dequeue_wakers.lock = LOCKED
    /\ \E d \in Dequeuers :
          /\ pc[d] = "pending"
          /\ call[d].empty
          /\ call[d].contended
          /\ call[d].locks = 1

\* The waker of task t is stored in a waker slot of its own side.
Stored(t) ==
    CASE t = "P" -> producer_waker.waker = Some(t)
      [] t = "C" -> consumer_waker.waker = Some(t)
      [] OTHER -> \E i \in DOMAIN OwnWakers(t).wakers :
                      OwnWakers(t).wakers[i] = Some(t)

\* The poll of task t returns Pending in this step.
ReturnsPending(t) == pc[t] # "pending" /\ pc'[t] = "pending"

\* C18: a poll that returns Pending has, before returning, either stored
\* the task's waker in a slot of its own side or invoked the task's waker.
C18_ResumptionPath ==
    [][\A t \in Tasks :
          ReturnsPending(t) =>
              /\ last'[t].ret = "Pending"
              /\ \/ call'[t].registered /\ Stored(t)'
                 \/ call'[t].selfwake /\ notified'[t]]_vars

\* The producer has returned Pending after invoking its own waker (the
\* consumer-side cell was locked), the consumer after storing its waker.
C18_Witness ==
    /\ pc["P"] = "pending"
    /\ call["P"].selfwake
    /\ notified["P"]
    /\ pc["C"] = "pending"
    /\ call["C"].registered
    /\ consumer_waker.waker = Some("C")

\* The producer creates an enqueue operation in this step.
CreatesEnqueue == pc["P"] = "idle" /\ pc'["P"] = "poll"

\* The producer is in the first poll of an enqueue whose item was pushed
\* when the operation was created.
FirstPollAfterFastPath ==
    /\ pc["P"] \in {"poll", "wake", "wake_cs"}
    /\ op["P"].kind = "enqueue"
    /\ last["P"].ret # "Pending"
    /\ op["P"].moved = 1
    /\ call["P"].bufops = 0

\* C19: creating an enqueue while the buffer has room puts the item at the
\* end of the buffer in the same step, before any poll, and the operation
\* keeps no item; the first poll of such an operation makes no buffer
\* access and no registration, only the notification of the consumer.
C19_FastPath ==
    /\ [][(CreatesEnqueue /\ Len(inner) < Capacity) =>
            /\ inner' = Append(inner, op'["P"].item[1])
            /\ value_to_enqueue'["P"] = None
            /\ call'["P"].bufops = 0
            /\ op'["P"].moved = 1]_vars
    /\ [][(FirstPollAfterFastPath /\ pc'["P"] # pc["P"]) =>
            /\ inner' = inner
            /\ call'["P"].bufops = 0
            /\ ~call'["P"].registered
            /\ producer_waker' = producer_waker
            /\ pc'["P"] \in {"wake", "wake_cs", "pending", "idle"}]_vars

\* The consumer has popped the first item while the enqueue that carried it
\* has not been polled yet.
C19_Witness ==
    /\ pc["P"] = "poll"
    /\ started["P"] = 1
    /\ op["P"].moved = 1
    /\ call["P"].bufops = 0
    /\ last["P"] = NoRet
    /\ op["C"].item = op["P"].item
    /\ dequeued_value["C"] = Some(1)

\* C20: a poll makes at most one push or pop attempt and at most one
\* try_lock attempt; a contended attempt ends the poll (it has returned
\* Pending after that one attempt).
C20_NoSpinning ==
    \A t \in Tasks :
        call[t].api = "poll" =>
            /\ call[t].bufops <= 1
            /\ call[t].locks <= 1
            /\ call[t].contended =>
                  /\ call[t].locks = 1
                  /\ call[t].done
                  /\ pc[t] = "pending"
                  /\ last[t].ret = "Pending"
            /\ call[t].done => pc[t] \in {"pending", "idle"}

\* A dequeuer's poll has popped an item, found the enqueue-side array
\* locked at its one attempt and returned, while the holder is still inside
\* its critical section.
C20_Witness ==
    \E d \in Dequeuers :
        /\ pc[d] = "pending"
        /\ call[d].bufops = 1
        /\ call[d].locks = 1
        /\ call[d].contended
        /\ IsSome(dequeued_value[d])
        /\ enqueue_wakers.lock = LOCKED

\* The capacity of the buffer task t works on.
CapacityOf(t) == IF t \in SpscTasks THEN Capacity ELSE MpmcCapacity

\* C21: the MPMC queue used by one enqueuing and one dequeuing task behaves
\* as the SPSC pair does: creating an enqueue while the buffer has room
\* pushes the item in the same step, and a registration made while the
\* task's earlier waker is still in the slot succeeds, leaves the slot as
\* it is and does not invoke the task's waker.
C21_SameProtocol ==
    /\ [][\A t \in {"P", "E1"} :
            (pc[t] = "idle" /\ pc'[t] = "poll" /\ Len(inner) < CapacityOf(t))
                => inner' = Append(inner, op'[t].item[1])]_vars
    /\ [][\A t \in {"P", "C", "E1", "D1"} :
            (pc[t] = "register_cs" /\ pc'[t] = "pending" /\ Stored(t)) =>
                /\ Stored(t)'
                /\ call'[t].registered
                /\ ~call'[t].selfwake
                /\ notified'[t] = notified[t]]_vars

\* The number of items held by operations: by enqueues that have not pushed
\* yet and by dequeues that have popped and not returned yet.
Held ==
    Cardinality({t \in Tasks : IsSome(value_to_enqueue[t])})
        + Cardinality({t \in Tasks : IsSome(dequeued_value[t])})

\* C22: the item of an enqueue is held by the operation exactly as long as
\* it has not been pushed, and it is pushed at most once; every item passed
\* to enqueue is in one place (an enqueue, the buffer, a dequeue, or
\* returned); a poll that finds the buffer full leaves the buffer and the
\* held item as they were.
C22_ItemConservation ==
    /\ [](\A t \in {"P", "E1"} :
            op[t].kind = "enqueue" =>
                /\ op[t].moved <= 1
                /\ IsSome(value_to_enqueue[t]) <=> op[t].moved = 0
                /\ IsSome(value_to_enqueue[t]) => value_to_enqueue[t] = op[t].item)
    /\ [](Len(enq_hist) = Held + Len(inner) + Len(deq_hist))
    /\ [][\A t \in {"P", "E1"} :
            (pc[t] = "poll" /\ pc'[t] = "register") =>
                /\ inner' = inner
                /\ Len(inner) = CapacityOf(t)
                /\ IsSome(value_to_enqueue[t])
                /\ value_to_enqueue'[t] = value_to_enqueue[t]]_vars

\* An enqueue that has returned Pending before is polled again, finds the
\* buffer full again and still holds its item.
C22_Witness ==
    \E t \in {"P", "E1"} :
        /\ pc[t] = "register"
        /\ last[t].ret = "Pending"
        /\ call[t].full
        /\ IsSome(value_to_enqueue[t])
        /\ Len(inner) = CapacityOf(t)

\* C23: when try_enqueue(v) has returned, v is in the buffer (the push
\* succeeded) or is handed back to the caller in the returned error.
C23_NoDiscard ==
    Returned("P", "try_enqueue") =>
        \/ call["P"].changed
        \/ last["P"].val = op["P"].item

\* The slots of its direction's array that hold the handle of task t.
SlotsOf(t) ==
    {i \in DOMAIN OwnWakers(t).wakers : OwnWakers(t).wakers[i] = Some(t)}

\* The tasks other than t that have a handle in the array t registers in.
ParkedBeside(t) ==
    {u \in MpmcTasks \ {t} :
        (u \in Enqueuers) = (t \in Enqueuers) /\ SlotsOf(u) # {}}

\* C24: the handle of a task is in at most one slot of its direction's
\* array, whatever polls the task has received, so that a registration
\* finds no empty slot only when W other tasks are parked in the array.
C24_OneSlotPerTask ==
    /\ [](\A t \in MpmcTasks : Cardinality(SlotsOf(t)) <= 1)
    /\ [][\A t \in MpmcTasks :
            (pc[t] = "register_cs" /\ pc'[t] = "pending"
                /\ call'[t].selfwake) =>
                Cardinality(ParkedBeside(t)) = Len(OwnWakers(t).wakers)]_vars

\* The flag of cell c is set.
Locked(c) ==
    CASE c = "consumer_waker" -> consumer_waker.locked
      [] c = "producer_waker" -> producer_waker.locked
      [] c = "dequeue_wakers" -> dequeue_wakers.lock = LOCKED
      [] c = "enqueue_wakers" -> enqueue_wakers.lock = LOCKED

\* Task t is between two steps: no poll and no try_ call of it is running.
BetweenSteps(t) == pc[t] \in {"off", "idle", "pending"}

\* The end of the critical section task t is in.
ReleaseStep(t) ==
    \/ t = "P" /\ (ProducerWakeCs \/ ProducerRegisterCs \/ ProducerTryWakeCs)
    \/ t = "C" /\ (ConsumerWakeCs \/ ConsumerRegisterCs \/ ConsumerTryWakeCs)
    \/ t \in Enqueuers /\ (EnqueueWakeCs(t) \/ EnqueueRegisterCs(t))
    \/ t \in Dequeuers /\ (DequeueWakeCs(t) \/ DequeueRegisterCs(t))

\* C25: the flag of a cell is set exactly while one task is inside a
\* critical section of it, within one poll or try_ call; a task is inside at
\* most one cell; when every task is between steps every cell is unlocked;
\* and the holder of a locked cell can always take the step that releases
\* it, which leaves the flag cleared.
C25_CellsWithinStep ==
    /\ [](\A c \in Cells :
            /\ Locked(c) <=> Holders(c) # {}
            /\ \A t \in Holders(c) :
                  /\ ~BetweenSteps(t)
                  /\ \A d \in Cells \ {c} : t \notin Holders(d)
                  /\ ENABLED ReleaseStep(t))
    /\ []((\A t \in Tasks : BetweenSteps(t)) =>
             \A c \in Cells : ~Locked(c))
    /\ [][\A c \in Cells : \A t \in Holders(c) :
             pc'[t] # pc[t] => (BetweenSteps(t)' /\ ~Locked(c)')]_vars

\* A poll or try_ call of the producer has taken the consumer-side cell,
\* fired the waker and returned with the flag cleared while the consumer is
\* parked between two polls.
C25_Witness ==
    /\ pc["P"] = "idle"
    /\ call["P"].done /\ call["P"].fired /\ call["P"].locks = 1
    /\ pc["C"] = "pending"
    /\ \A c \in Cells : ~Locked(c)

\* C26: a dequeue that is dropped before it completes takes no item with
\* it, so that every item passed to enqueue is held by an operation in
\* flight, in the buffer, or was returned by a dequeue.
C26_DequeueLosesNoItem ==
    /\ \A t \in {"C"} \cup Dequeuers :
           last[t].api = "drop" => last[t].val = None
    /\ Len(enq_hist) = Held + Len(inner) + Len(deq_hist)

=============================================================================
